---- MODULE Spec2Model ----
(***************************************************************************)
(* Model of src/parser.py: the line classifier (GET_FUNC / GET_CLASS),     *)
(* extract_docstring and the recursive, indentation driven parse.          *)
(*                                                                         *)
(* A line of text is a sequence of lexical pieces (tokens): " " is one     *)
(* whitespace character, DQ and SQ are the two triple-quote delimiters,    *)
(* "(", ")", ":", "#", "=" are punctuation and every other token is a run  *)
(* of word characters (\w+).  The text of a line is the concatenation of   *)
(* its tokens.  Indices are 0-based as in the source: At(s, i) is s[i].    *)
(* The recursion of parse is an explicit stack of frames, one per active   *)
(* call.                                                                   *)
(***************************************************************************)
EXTENDS Integers, Sequences, FiniteSets

\* ------------------------------------------------------------------ bounds
MaxLines == 3
MaxIndent == 1
MaxDocLines == 3
MaxTokens == 6

\* ------------------------------------------------------------------ text
SP == " "
DQ == "\"\"\""
SQ == "'''"
NL == "\n"
Punct == {SP, DQ, SQ, NL, "(", ")", ":", "#", "="}

None == <<>>
Some(x) == <<x>>

At(s, i) == s[i + 1]

Last(s) == s[Len(s)]

Range(s) == {s[k] : k \in 1..Len(s)}

IsSpace(t) == t = SP

IsWord(t) == t \notin Punct

RECURSIVE LStrip(_)
LStrip(s) ==
  IF s = <<>> THEN <<>>
  ELSE IF IsSpace(Head(s)) THEN LStrip(Tail(s)) ELSE s

RECURSIVE RStrip(_)
RStrip(s) ==
  IF s = <<>> THEN <<>>
  ELSE IF IsSpace(Last(s)) THEN RStrip(SubSeq(s, 1, Len(s) - 1)) ELSE s

Strip(s) == RStrip(LStrip(s))

IsBlank(line) == Strip(line) = <<>>

StartsWith(s, t) == s # <<>> /\ Head(s) = t

EndsWith(s, t) == s # <<>> /\ Last(s) = t

Contains(s, t) == t \in Range(s)

IsComment(line) == StartsWith(Strip(line), "#")

LineIndent(line) == Len(line) - Len(LStrip(line))

RECURSIVE DropWord(_)
DropWord(s) ==
  IF s = <<>> THEN <<>>
  ELSE IF IsWord(Head(s)) THEN DropWord(Tail(s)) ELSE s

RECURSIVE Join(_)
Join(ls) ==
  IF ls = <<>> THEN <<>>
  ELSE IF Len(ls) = 1 THEN Head(ls)
  ELSE Head(ls) \o <<NL>> \o Join(Tail(ls))

\* ------------------------------------------------------- line classifier
FUNC_SIGNATURE == 2
CLASS_NAME == 3

\* the text after "<keyword>\s+(\w+)", when the line starts that way
AfterName(r, keyword) ==
  IF ~StartsWith(r, keyword) THEN None
  ELSE LET r1 == Tail(r)
           r2 == LStrip(r1)
       IN IF Len(r2) < Len(r1) /\ r2 # <<>> /\ IsWord(Head(r2))
          THEN Some(DropWord(r2))
          ELSE None

GET_FUNC(line) ==
  LET a == AfterName(LStrip(line), "def")
  IN a # None
     /\ LET r == LStrip(a[1])
        IN StartsWith(r, "(") /\ Contains(Tail(r), ")")

GET_CLASS(line) == AfterName(LStrip(line), "class") # None

MatchIndent(line) == LineIndent(line)

Classify(line) ==
  IF GET_FUNC(line)
  THEN Some([type |-> FUNC_SIGNATURE, indent |-> MatchIndent(line)])
  ELSE IF GET_CLASS(line)
  THEN Some([type |-> CLASS_NAME, indent |-> MatchIndent(line)])
  ELSE None

\* ----------------------------------------------------- extract_docstring
IsSingleLine(line, q) == Len(line) >= 2 /\ Head(line) = q /\ Last(line) = q

Enclosed(line) == SubSeq(line, 2, Len(line) - 1)

SingleLineText(line, q) == <<DQ>> \o Enclosed(line) \o <<DQ>>

RECURSIVE ScanClose(_, _, _, _)
ScanClose(lines, idx, quote_type, docstring_lines) ==
  IF idx >= Len(lines)
  THEN [docstring_lines |-> docstring_lines, idx |-> idx]
  ELSE LET cur == Strip(At(lines, idx))
           acc == Append(docstring_lines, cur)
       IN IF EndsWith(cur, quote_type)
          THEN [docstring_lines |-> acc, idx |-> idx]
          ELSE ScanClose(lines, idx + 1, quote_type, acc)

AfterBlock(idx) == idx + 1

MultiLine(lines, start_idx, line, quote_type) ==
  LET r == ScanClose(lines, start_idx + 1, quote_type, <<line>>)
  IN [doc |-> Some(Join(r.docstring_lines)), next |-> AfterBlock(r.idx)]

extract_docstring(lines, start_idx) ==
  IF start_idx >= Len(lines) THEN [doc |-> None, next |-> start_idx]
  ELSE LET line == Strip(At(lines, start_idx))
       IN IF IsSingleLine(line, DQ)
          THEN [doc |-> Some(SingleLineText(line, DQ)), next |-> start_idx + 1]
          ELSE IF IsSingleLine(line, SQ)
          THEN [doc |-> Some(SingleLineText(line, SQ)), next |-> start_idx + 1]
          ELSE IF StartsWith(line, DQ)
          THEN MultiLine(lines, start_idx, line, DQ)
          ELSE IF StartsWith(line, SQ)
          THEN MultiLine(lines, start_idx, line, SQ)
          ELSE [doc |-> None, next |-> start_idx]

\* ------------------------------------------------------------ parse: data
\* arg: the arguments of the call under study; ret: None, or Some(its return
\* value); stack: the active calls of parse, innermost last; pc: "run" while
\* the call is executing, "done" once it has returned
VARIABLES arg, ret, stack, pc

vars == <<arg, ret, stack, pc>>

Token(content, type) == [content |-> content, type |-> type]

\* src and body_from are history fields: the position in the whole input of
\* the node's definition line, and base + current_idx when the body loop starts
DocumentNode(identifier, description, indent_level, src, body_from) ==
  [identifier |-> identifier, description |-> description, children |-> <<>>,
   indent_level |-> indent_level, src |-> src, body_from |-> body_from]

Frame(lines, parent_indent, base) ==
  [lines |-> lines, parent_indent |-> parent_indent, i |-> 0, nodes |-> <<>>,
   base |-> base, wait |-> None]

Top == stack[Len(stack)]

SetTop(f) == [stack EXCEPT ![Len(stack)] = f]

\* ------------------------------------------------- parse: one definition
RECURSIVE SkipBlank(_, _)
SkipBlank(lines, next_idx) ==
  IF next_idx < Len(lines) /\ IsBlank(At(lines, next_idx))
  THEN SkipBlank(lines, next_idx + 1)
  ELSE next_idx

\* variant: the candidate line need not be indented deeper than the definition
IsCandidate_AnyIndent(lines, next_idx, indent) ==
  /\ next_idx < Len(lines)
  /\ (Contains(At(lines, next_idx), DQ) \/ Contains(At(lines, next_idx), SQ))

IsCandidate(lines, next_idx, indent) ==
  /\ next_idx < Len(lines)
  /\ LineIndent(At(lines, next_idx)) > indent
  /\ (Contains(At(lines, next_idx), DQ) \/ Contains(At(lines, next_idx), SQ))

FindDocstring(lines, i, indent) ==
  LET next_idx == SkipBlank(lines, i + 1)
  IN IF IsCandidate(lines, next_idx, indent)
     THEN extract_docstring(lines, next_idx)
     ELSE [doc |-> None, next |-> next_idx]

Truthy(docstring) == docstring # None /\ docstring[1] # <<>>

\* variant: the body always starts right after the definition line
BodyStart_IgnoreDoc(d, i) == i + 1

BodyStart(d, i) == IF Truthy(d.doc) THEN d.next ELSE i + 1

\* variant: a line at the definition's own indentation stays in the body
EndsBody_Strict(current_indent, indent) == current_indent < indent

EndsBody(current_indent, indent) == current_indent <= indent

RECURSIVE BodyEnd(_, _, _)
BodyEnd(lines, current_idx, indent) ==
  IF current_idx >= Len(lines) THEN current_idx
  ELSE IF IsBlank(At(lines, current_idx))
  THEN BodyEnd(lines, current_idx + 1, indent)
  ELSE IF EndsBody(LineIndent(At(lines, current_idx)), indent) THEN current_idx
  ELSE BodyEnd(lines, current_idx + 1, indent)

Slice(lines, from, to) == SubSeq(lines, from + 1, to)

AnyNonBlank(body_lines) == \E k \in 1..Len(body_lines) : ~IsBlank(body_lines[k])

BelowFloor(parent_indent, indent) == parent_indent >= 0 /\ indent <= parent_indent

\* variant: indent_level left at its default
NodeIndent_Default(indent) == 0

NodeIndent(indent) == indent

\* variant: the two tags the wrong way round
TokenTypeOf_Swapped(func_match) == IF func_match THEN CLASS_NAME ELSE FUNC_SIGNATURE

TokenTypeOf(func_match) == IF func_match THEN FUNC_SIGNATURE ELSE CLASS_NAME

\* variant: the scan index is not advanced
NextLine_Stay(i) == i

NextLine(i) == i + 1

\* everything parse computes for the definition line at Top.i
Def(f) ==
  LET line == At(f.lines, f.i)
      m == Classify(line)[1]
      d == FindDocstring(f.lines, f.i, m.indent)
      from == BodyStart(d, f.i)
      to == BodyEnd(f.lines, from, m.indent)
  IN [indent |-> m.indent,
      node |-> DocumentNode(Token(Strip(line), TokenTypeOf(GET_FUNC(line))), d.doc,
                            NodeIndent(m.indent), f.base + f.i, f.base + from),
      from |-> from,
      body_lines |-> Slice(f.lines, from, to),
      current_idx |-> to]

\* ---------------------------------------------------------- parse: inputs
Indent(n) == [k \in 1..n |-> SP]

DefText == <<"def", SP, "f", "(", ")", ":">>
ClassText == <<"class", SP, "A", ":">>
PassText == <<"pass">>
CommentText == <<"#">>
DocText == <<DQ, "doc", DQ>>
QuoteText == <<DQ>>

ParseTexts == {DefText, ClassText, PassText, CommentText, DocText, QuoteText}

ParseLines == {<<>>} \cup {Indent(n) \o t : n \in 0..MaxIndent, t \in ParseTexts}

SeqsUpTo(S, n) == UNION {[1..k -> S] : k \in 0..n}

\* the default parent_indent (no floor), and a floor at the left margin
NoFloor == -1
Floors == {NoFloor, 0}

\* ---------------------------------------------------------- parse: actions
Running == pc = "run" /\ stack # <<>>

InLoop == Running /\ Top.wait = None /\ Top.i < Len(Top.lines)

Current == At(Top.lines, Top.i)

\* return nodes: to the caller, which completes the node it was building
\* (node.children = ..., nodes.append(node), i = current_idx), or to the outside
ReturnNodes(nodes) ==
  IF Len(stack) = 1
  THEN /\ ret' = Some(nodes)
       /\ pc' = "done"
       /\ stack' = <<>>
  ELSE LET caller == stack[Len(stack) - 1]
           w == caller.wait[1]
           node == [w.node EXCEPT !.children = nodes]
       IN /\ stack' = [SubSeq(stack, 1, Len(stack) - 1) EXCEPT ![Len(stack) - 1] =
                         [caller EXCEPT !.nodes = Append(@, node),
                                        !.i = w.current_idx,
                                        !.wait = None]]
          /\ UNCHANGED <<ret, pc>>

\* i += 1; continue
Skipped == SetTop([Top EXCEPT !.i = NextLine(@)])

SkipBlankOrComment ==
  /\ InLoop
  /\ IsBlank(Current) \/ IsComment(Current)
  /\ stack' = Skipped
  /\ UNCHANGED <<arg, ret, pc>>

SkipOther ==
  /\ InLoop
  /\ ~(IsBlank(Current) \/ IsComment(Current))
  /\ Classify(Current) = None
  /\ stack' = Skipped
  /\ UNCHANGED <<arg, ret, pc>>

IsDefinition ==
  /\ InLoop
  /\ ~(IsBlank(Current) \/ IsComment(Current))
  /\ Classify(Current) # None

FloorBreak ==
  /\ IsDefinition
  /\ BelowFloor(Top.parent_indent, Classify(Current)[1].indent)
  /\ ReturnNodes(Top.nodes)
  /\ UNCHANGED arg

\* nodes.append(node); i = current_idx
Appended(f, r) == [f EXCEPT !.nodes = Append(@, r.node), !.i = r.current_idx]

\* the caller keeps node and current_idx while parse(body_lines, indent) runs
Calling(f, r) ==
  [f EXCEPT !.wait = Some([node |-> r.node, current_idx |-> r.current_idx])]

DefLeaf ==
  /\ IsDefinition
  /\ ~BelowFloor(Top.parent_indent, Classify(Current)[1].indent)
  /\ ~AnyNonBlank(Def(Top).body_lines)
  /\ stack' = SetTop(Appended(Top, Def(Top)))
  /\ UNCHANGED <<arg, ret, pc>>

DefCall ==
  /\ IsDefinition
  /\ ~BelowFloor(Top.parent_indent, Classify(Current)[1].indent)
  /\ AnyNonBlank(Def(Top).body_lines)
  /\ stack' = Append(SetTop(Calling(Top, Def(Top))),
                     Frame(Def(Top).body_lines, Def(Top).indent,
                           Top.base + Def(Top).from))
  /\ UNCHANGED <<arg, ret, pc>>

LoopEnd ==
  /\ Running
  /\ Top.wait = None
  /\ Top.i >= Len(Top.lines)
  /\ ReturnNodes(Top.nodes)
  /\ UNCHANGED arg

InitParse(Lines) ==
  /\ arg \in [lines : SeqsUpTo(Lines, MaxLines), parent_indent : Floors]
  /\ ret = None
  /\ stack = <<Frame(arg.lines, arg.parent_indent, 0)>>
  /\ pc = "run"

Init == InitParse(ParseLines)

Next ==
  \/ SkipBlankOrComment
  \/ SkipOther
  \/ FloorBreak
  \/ DefLeaf
  \/ DefCall
  \/ LoopEnd

Spec == Init /\ [][Next]_vars

\* parse on inputs whose lines after a definition may hold a delimiter that
\* does not open the line
AssignText == <<"x", "=", DQ, "a", DQ>>
SingleDocText == <<SQ, "doc", SQ>>

AdjTexts == {DefText, PassText, DocText, SingleDocText, QuoteText, AssignText}

AdjLines == {<<>>} \cup {Indent(n) \o t : n \in 0..MaxIndent, t \in AdjTexts}

InitAdj == InitParse(AdjLines)

SpecAdj == InitAdj /\ [][Next]_vars

\* ------------------------------------------- extract_docstring on its own
OpenText == <<DQ, "start">>
CloseText == <<"end", DQ>>
TailText == <<DQ, "a", DQ, SP, "x">>
SingleOpenText == <<SQ, "start">>
SingleCloseText == <<"end", SQ>>

DocTexts ==
  {PassText, DocText, QuoteText, OpenText, CloseText, TailText,
   SingleDocText, SingleOpenText, SingleCloseText}

DocLines == {Indent(n) \o t : n \in {0, MaxIndent}, t \in DocTexts}

InitDoc ==
  /\ arg \in {a \in [lines : SeqsUpTo(DocLines, MaxDocLines), start_idx : 0..MaxDocLines] :
               a.start_idx <= Len(a.lines)}
  /\ ret = None
  /\ stack = <<>>
  /\ pc = "run"

CallExtract ==
  /\ pc = "run"
  /\ ret' = Some(extract_docstring(arg.lines, arg.start_idx))
  /\ pc' = "done"
  /\ UNCHANGED <<arg, stack>>

SpecDoc == InitDoc /\ [][CallExtract]_vars

\* ------------------------------------------------ line classifier on its own
Alphabet == {SP, "def", "class", "f", "(", ")", ":"}

InitLine ==
  /\ arg \in [line : SeqsUpTo(Alphabet, MaxTokens)]
  /\ ret = None
  /\ stack = <<>>
  /\ pc = "run"

CallClassify ==
  /\ pc = "run"
  /\ ret' = Some(Classify(arg.line))
  /\ pc' = "done"
  /\ UNCHANGED <<arg, stack>>

SpecLine == InitLine /\ [][CallClassify]_vars

\* ------------------------------- parse called on two files, one after another
\* the first file is the second with one comment line put in at position p
InsertAt(lines, p, line) ==
  SubSeq(lines, 1, p) \o <<line>> \o SubSeq(lines, p + 1, Len(lines))

\* lines that hold no triple-quote delimiter
PlainTexts == {DefText, ClassText, PassText}

PlainLines == {<<>>} \cup {Indent(n) \o t : n \in 0..MaxIndent, t \in PlainTexts}

CommentLines == {Indent(n) \o CommentText : n \in 0..MaxIndent}

InitPair ==
  /\ \E plain \in SeqsUpTo(PlainLines, MaxLines - 1), c \in CommentLines,
        fl \in Floors :
       \E p \in 0..Len(plain) :
         arg = [lines |-> InsertAt(plain, p, c), parent_indent |-> fl,
                plain |-> plain, first |-> None]
  /\ ret = None
  /\ stack = <<Frame(arg.lines, arg.parent_indent, 0)>>
  /\ pc = "run"

\* the first forest is kept and parse is called on the second file
ParsePlain ==
  /\ pc = "done"
  /\ arg.first = None
  /\ arg' = [arg EXCEPT !.lines = arg.plain, !.first = ret]
  /\ ret' = None
  /\ stack' = <<Frame(arg.plain, arg.parent_indent, 0)>>
  /\ pc' = "run"

NextPair ==
  \/ Next
  \/ ParsePlain

SpecPair == InitPair /\ [][NextPair]_vars


Done == pc = "done"

Returned == ret[1]


\* ------------------------------------------------------------ the forest
RECURSIVE Flatten(_)
Flatten(nodes) ==
  IF nodes = <<>> THEN <<>>
  ELSE <<Head(nodes)>> \o Flatten(Head(nodes).children) \o Flatten(Tail(nodes))

\* every node of the returned forest, at every nesting depth
AllNodes == Range(Flatten(Returned))

Descendants(n) == Range(Flatten(n.children))

InputLine(j) == At(arg.lines, j)

Indices == 0..(Len(arg.lines) - 1)

IsDefinitionLine(line) ==
  ~IsBlank(line) /\ ~IsComment(line) /\ (GET_FUNC(line) \/ GET_CLASS(line))

\* c is the first non-blank line after line j
FirstNonBlankAfter(j, c) ==
  /\ c \in Indices
  /\ c > j
  /\ ~IsBlank(InputLine(c))
  /\ \A k \in (j + 1)..(c - 1) : IsBlank(InputLine(k))

DocLineCount(text) == 1 + Cardinality({k \in 1..Len(text) : text[k] = NL})

\* the input lines that make up the docstring block of node n
DocBlock(n) ==
  IF n.description = None THEN {}
  ELSE {j \in Indices : \E c \in Indices :
          /\ FirstNonBlankAfter(n.src, c)
          /\ c <= j
          /\ j < c + DocLineCount(n.description[1])}

InSomeDocBlock(j) == \E n \in AllNodes : j \in DocBlock(n)

FlatNodes == Flatten(Returned)

\* how many nodes of the forest were created from input line j
NodeCount(j) ==
  Cardinality({k \in 1..Len(FlatNodes) :
                 /\ FlatNodes[k].src = j
                 /\ FlatNodes[k].identifier.content = Strip(InputLine(j))})

TopLevelCall == arg.parent_indent = NoFloor

\* ------------------------------------------------------------------ C1
\* C1 as stated: parse with no parent floor turns every non-blank,
\* non-comment line that matches the definition pattern into exactly one node
\* of the returned forest.
C1_Coverage ==
  (Done /\ TopLevelCall) =>
    \A j \in Indices : IsDefinitionLine(InputLine(j)) => NodeCount(j) = 1

\* C1 amended: a matching line is the identifier of exactly one node unless it
\* lies inside the docstring block extracted for some node, and then of none.
C1_CoverageOutsideDocstrings ==
  (Done /\ TopLevelCall) =>
    \A j \in Indices :
      IsDefinitionLine(InputLine(j)) =>
        NodeCount(j) = (IF InSomeDocBlock(j) THEN 0 ELSE 1)

C1_Witness ==
  /\ Done
  /\ TopLevelCall
  /\ \E j \in Indices : IsDefinitionLine(InputLine(j)) /\ InSomeDocBlock(j)
  /\ \E j \in Indices : IsDefinitionLine(InputLine(j)) /\ NodeCount(j) = 1

\* ------------------------------------------------------------------ C2
\* C2: in the returned forest every child's indent_level is strictly greater
\* than its parent's.
C2_DepthInvariant ==
  Done =>
    \A n \in AllNodes :
      \A k \in 1..Len(n.children) : n.children[k].indent_level > n.indent_level

C2_Witness ==
  /\ Done
  /\ \E n \in AllNodes : n.children # <<>> /\ n.description # None

\* ------------------------------------------------------------------ C3
NonEmpty(description) == description # None /\ description[1] # <<>>

\* the trimmed line begins with one of the two triple-quote delimiters
Opens(line) == StartsWith(Strip(line), DQ) \/ StartsWith(Strip(line), SQ)

\* the first non-blank line after n's definition line exists, is indented
\* deeper than the definition line and opens a delimiter
HasDocCandidate(n) ==
  \E c \in Indices :
    /\ FirstNonBlankAfter(n.src, c)
    /\ LineIndent(InputLine(c)) > LineIndent(InputLine(n.src))
    /\ Opens(InputLine(c))

\* C3: a node's description is non-empty exactly when the first non-blank
\* line after its definition line exists, is indented strictly deeper and
\* opens a triple-quote delimiter; otherwise the description is empty and the
\* body range starts directly after the definition line.
C3_DocstringAdjacency ==
  Done =>
    \A n \in AllNodes :
      /\ NonEmpty(n.description) <=> HasDocCandidate(n)
      /\ ~HasDocCandidate(n) => (n.description = None /\ n.body_from = n.src + 1)

C3_Witness ==
  /\ Done
  /\ \E n \in AllNodes, c \in Indices :
       /\ NonEmpty(n.description)
       /\ FirstNonBlankAfter(n.src, c)
       /\ c > n.src + 1
       /\ n.body_from = c + 1

\* ------------------------------------------------------------------ C4
\* C4 as stated: the classifier applied to a node's stored identifier text
\* gives the node's type tag and an indentation equal to its indent_level.
C4_RoundTrip ==
  Done =>
    \A n \in AllNodes :
      Classify(n.identifier.content) =
        Some([type |-> n.identifier.type, indent |-> n.indent_level])

\* C4 amended: the classifier applied to the stored identifier text gives the
\* node's type tag and indentation 0, the identifier being the trimmed line;
\* applied to the definition line itself it gives the type tag and indent_level.
C4_RoundTripTrimmed ==
  Done =>
    \A n \in AllNodes :
      /\ Classify(n.identifier.content) =
           Some([type |-> n.identifier.type, indent |-> 0])
      /\ Classify(InputLine(n.src)) =
           Some([type |-> n.identifier.type, indent |-> n.indent_level])

C4_Witness ==
  /\ Done
  /\ \E n \in AllNodes : n.indent_level > 0 /\ n.identifier.type = CLASS_NAME
  /\ \E n \in AllNodes : n.indent_level > 0 /\ n.identifier.type = FUNC_SIGNATURE

\* ------------------------------------------------------------------ C5
\* one step of parse: an iteration of the outer loop moves the scan index of
\* its call forward, a recursive call gets fewer lines than its caller holds,
\* and a return hands a list of nodes to the caller or to the outside
Progress ==
  LET depth == Len(stack)
  IN /\ Len(stack') = depth => stack'[depth].i > stack[depth].i
     /\ Len(stack') = depth + 1 =>
          /\ Len(stack'[depth + 1].lines) < Len(stack[depth].lines)
          /\ stack'[depth + 1].i = 0
          /\ stack'[depth].i = stack[depth].i
     /\ (Len(stack') = depth - 1 /\ depth > 1) =>
          /\ stack'[depth - 1].i > stack[depth - 1].i
          /\ Len(stack'[depth - 1].nodes) = Len(stack[depth - 1].nodes) + 1
     /\ (Len(stack') = depth - 1 /\ depth = 1) =>
          /\ pc' = "done"
          /\ ret' = Some(stack[1].nodes)

\* the lines a call has still to scan, counted twice, plus one for its return;
\* a call waiting for a recursive call resumes at current_idx
Remaining(f) ==
  LET at == IF f.wait = None THEN f.i ELSE f.wait[1].current_idx
  IN IF at >= Len(f.lines) THEN 0 ELSE Len(f.lines) - at

RECURSIVE Weight(_)
Weight(frames) ==
  IF frames = <<>> THEN 0
  ELSE 2 * Remaining(Head(frames)) + 1 + Weight(Tail(frames))

Variant == Weight(stack)

\* a step that changes the state is possible (ENABLED <<Next>>_vars, written
\* out action by action): the innermost call is executing, not waiting for a
\* call of its own, and the branch of the loop body that applies to its
\* current line, or its return, leaves a different state
CanStep ==
  /\ Running
  /\ Top.wait = None
  /\ \/ Top.i >= Len(Top.lines)
     \/ /\ InLoop
        /\ IsBlank(Current) \/ IsComment(Current) \/ Classify(Current) = None
        /\ Skipped # stack
     \/ /\ IsDefinition
        /\ BelowFloor(Top.parent_indent, Classify(Current)[1].indent)
     \/ /\ IsDefinition
        /\ ~AnyNonBlank(Def(Top).body_lines)
        /\ SetTop(Appended(Top, Def(Top))) # stack
     \/ /\ IsDefinition
        /\ AnyNonBlank(Def(Top).body_lines)

Quotes == {DQ, SQ}

Called == Done /\ arg.start_idx < Len(arg.lines)

Candidate == Strip(At(arg.lines, arg.start_idx))

\* the candidate line opens delimiter q
OpensWith(q) == StartsWith(Candidate, q)

\* delimiter q occurs again later on the candidate line
ClosesOnLine(q) == \E k \in 2..Len(Candidate) : Candidate[k] = q

\* some later line's trimmed content ends with q
ClosesLater(q) ==
  \E j \in (arg.start_idx + 1)..(Len(arg.lines) - 1) : EndsWith(Strip(At(arg.lines, j)), q)

TrimmedFrom(j) == [k \in 1..(Len(arg.lines) - j) |-> Strip(At(arg.lines, j + k - 1))]

\* C6: when the candidate line opens a delimiter and the matching closing
\* delimiter occurs later on the same line, extract_docstring returns text of
\* that line only and the next index start_idx + 1.
C6_SingleLineForm ==
  Called =>
    \A q \in Quotes :
      (OpensWith(q) /\ ClosesOnLine(q)) =>
        /\ Returned.doc # None
        /\ ~Contains(Returned.doc[1], NL)
        /\ Returned.next = arg.start_idx + 1

\* C7: a returned docstring starts with the delimiter that opened the block
\* in the source and, when the block was closed, ends with that delimiter.
C7_DelimitersRetained ==
  (Called /\ Returned.doc # None) =>
    \A q \in Quotes :
      OpensWith(q) =>
        /\ StartsWith(Returned.doc[1], q)
        /\ (ClosesOnLine(q) \/ ClosesLater(q)) => EndsWith(Returned.doc[1], q)

\* C8: when the candidate line opens a delimiter without closing it and no
\* later line ends with the matching delimiter, extract_docstring returns the
\* block of every line from start_idx to the last line and the index
\* len(lines).
C8_Unterminated ==
  Called =>
    \A q \in Quotes :
      (OpensWith(q) /\ ~ClosesOnLine(q) /\ ~ClosesLater(q)) =>
        /\ Returned.doc = Some(Join(TrimmedFrom(arg.start_idx)))
        /\ Returned.next = Len(arg.lines)

\* --------------------------------------------------- C9: the line classifier
ColonAfter(line, t) ==
  \E k \in 1..Len(line) : \E m \in (k + 1)..Len(line) : line[k] = t /\ line[m] = ":"

\* the full definition shape: the matched prefix is followed by a colon
FullShape(line) ==
  \/ GET_FUNC(line) /\ ColonAfter(line, ")")
  \/ GET_CLASS(line) /\ \E w \in Range(line) : IsWord(w) /\ w # "class" /\ ColonAfter(line, w)

\* C9: a line is classified as a definition only if it has the full
\* definition shape, colon included; a near match without the colon is no
\* match.
C9_ColonRequired == Done => (Returned # None => FullShape(arg.line))


\* ----------------------------------------------------------------- C10
\* the line right after n's definition line, or right after n's docstring
\* block when it has one
BodyFirst(n) ==
  IF DocBlock(n) = {} THEN n.src + 1
  ELSE 1 + CHOOSE j \in DocBlock(n) : \A k \in DocBlock(n) : k <= j

\* line j lies in n's body range: every non-blank line from BodyFirst(n) up
\* to and including j is indented strictly deeper than n's definition line
InBodyRange(n, j) ==
  /\ j >= BodyFirst(n)
  /\ \A k \in BodyFirst(n)..j :
       IsBlank(InputLine(k)) \/ LineIndent(InputLine(k)) > LineIndent(InputLine(n.src))

\* C10: a node created from a later line is a descendant of node n exactly
\* when that line lies in n's body range, the maximal run of lines after n's
\* definition line (or docstring) whose non-blank lines are all indented
\* strictly deeper than n; n's children are the nodes of that range in order.
C10_BodyRangeNesting ==
  Done =>
    \A n \in AllNodes :
      /\ \A m \in AllNodes :
           m.src > n.src => (m \in Descendants(n) <=> InBodyRange(n, m.src))
      /\ \A k \in 1..Len(n.children) :
           /\ n.children[k].src >= n.body_from
           /\ k > 1 => n.children[k].src > n.children[k - 1].src

C10_Witness ==
  /\ Done
  /\ \E n \in AllNodes, m \in AllNodes, o \in AllNodes :
       /\ m \in Descendants(n)
       /\ o.src > m.src
       /\ o \notin Descendants(n)

\* ----------------------------------------------------------------- C11
\* what the claim compares: identifier (content and type tag), indent level,
\* order and nesting; the history fields are left out
RECURSIVE Shape(_)
Shape(nodes) ==
  [k \in 1..Len(nodes) |->
     [identifier |-> nodes[k].identifier,
      indent_level |-> nodes[k].indent_level,
      children |-> Shape(nodes[k].children)]]

BothParsed == Done /\ arg.first # None

\* C11: for a line sequence without triple-quote delimiters, putting in (or
\* taking out) one comment line, at any position and with any indentation,
\* leaves the forest returned by parse unchanged: same identifiers, type
\* tags and indent levels, in the same order and with the same nesting.
C11_CommentsNotStructural ==
  (BothParsed /\ TopLevelCall) => Shape(arg.first[1]) = Shape(Returned)

====
